---------------------------- MODULE Spec2Model ----------------------------
(***************************************************************************)
(* A model of pywikitools/fortraininglib.py, the client library over the   *)
(* 4training.net MediaWiki API.                                            *)
(*                                                                         *)
(* Every public operation is one synchronous call: it builds a request,    *)
(* reads the JSON document the server answers with and derives its result  *)
(* from it.  The server is the environment: each response is drawn from a  *)
(* bounded set of JSON documents, keys present or missing.  A run of an    *)
(* operation ends in pc = "done" with result either a returned value or    *)
(* the exception that left the function.                                   *)
(*                                                                         *)
(* Python strings the code inspects character by character are sequences   *)
(* of one-character strings; strings it only passes along are TLA+         *)
(* strings.  A JSON object is a function from its keys; a JSON array is a  *)
(* sequence.                                                               *)
(***************************************************************************)
EXTENDS Integers, Sequences, FiniteSets, TLC

VARIABLES
    pc,        \* position of the running operation
    args,      \* the operation's parameters
    traffic,   \* the requests issued so far, each with what its response signalled
    json,      \* the JSON document of the last response read
    locals,    \* the operation's local variables
    wiki,      \* what the remote wiki holds for the operation's subject
    log,       \* the records handed to the module's logger, in order
    result     \* the outcome of the operation, once pc = "done"

vars == <<pc, args, traffic, json, locals, wiki, log, result>>

-----------------------------------------------------------------------------
(* Python values and outcomes *)

\* The value None.
None == [kind |-> "None"]

\* A str value.
Str(s) == [kind |-> "str", str |-> s]

\* A list value.
List(l) == [kind |-> "list", list |-> l]

\* A parsed JSON document handed on as it is.
Doc(d) == [kind |-> "doc", doc |-> d]

\* An exception that leaves the operation unhandled.
Raise(e) == [kind |-> "raise", exc |-> e]

\* No outcome yet.
Running == [kind |-> "running"]

\* The JSON object without keys, {}.
EmptyObject == [k \in {} |-> 0]

\* `key in obj` for a JSON object.
Has(obj, key) == key \in DOMAIN obj

\* One request, and whether its response held the 'continue' key.
Exchange(request, response) ==
    [request |-> request, continue |-> Has(response, "continue")]

\* A record of the logger: its level, the message and the try or line the
\* message is about (0 when it is about the call as a whole).
LogRecord(level, message, subject) ==
    [level |-> level, message |-> message, subject |-> subject]

-----------------------------------------------------------------------------
(* str operations *)

\* s[from:] for a 1-based from.
Drop(s, n) == SubSeq(s, n + 1, Len(s))

\* s.startswith(p)
StartsWith(s, p) == Len(s) >= Len(p) /\ SubSeq(s, 1, Len(p)) = p

\* s.endswith(p)
EndsWith(s, p) == Len(s) >= Len(p) /\ SubSeq(s, Len(s) - Len(p) + 1, Len(s)) = p

\* `needle in s` for two strs.
Contains(s, needle) ==
    \E k \in 0..(Len(s) - Len(needle)) : SubSeq(s, k + 1, k + Len(needle)) = needle

\* s.replace(old, new) for a non-empty old: every non-overlapping
\* occurrence, found from the left.
RECURSIVE Replace(_, _, _)
Replace(s, old, new) ==
    IF s = <<>> THEN <<>>
    ELSE IF StartsWith(s, old) THEN new \o Replace(Drop(s, Len(old)), old, new)
    ELSE <<Head(s)>> \o Replace(Tail(s), old, new)

\* All strs over an alphabet of at most n characters.
RECURSIVE StrsUpTo(_, _)
StrsUpTo(alphabet, n) ==
    IF n = 0 THEN {<<>>}
    ELSE LET shorter == StrsUpTo(alphabet, n - 1)
         IN  shorter \cup {Append(s, c) : s \in shorter, c \in alphabet}

\* The concatenation of a sequence of strs.
RECURSIVE Concat(_)
Concat(ss) == IF ss = <<>> THEN <<>> ELSE Head(ss) \o Concat(Tail(ss))

-----------------------------------------------------------------------------
(* title_to_message *)

\* The longest title drawn.
MaxTitleLen == 4

\* The characters titles are drawn from: every character title_to_message
\* treats specially, an upper-case and a lower-case letter.
TitleAlphabet == {"-", "_", "(", ")", "'", ":", "P", "r"}

Titles == StrsUpTo(TitleAlphabet, MaxTitleLen)

\* str.lower() on one character of the alphabet.
LowerChar(c) == IF c = "P" THEN "p" ELSE c

\* str.lower()
Lower(s) == [k \in 1..Len(s) |-> LowerChar(s[k])]

\* The fixed prefix 'sidebar-'.
SidebarPrefix == <<"s", "i", "d", "e", "b", "a", "r", "-">>

\* title_to_message with the hyphens removed last instead of first.
title_to_message_hyphens_last(title) ==
    LET r1 == Replace(title, <<"_", "(">>, <<"-">>)
        r2 == Replace(r1, <<")">>, <<>>)
        r3 == Replace(r2, <<"'">>, <<>>)
        r4 == Replace(r3, <<"_">>, <<>>)
        r5 == Replace(r4, <<":">>, <<>>)
        r6 == Replace(r5, <<"-">>, <<>>)
    IN  SidebarPrefix \o Lower(r6)

\* title_to_message: the seven rewrites of ret, in the order of the code.
title_to_message(title) ==
    LET r1 == Replace(title, <<"-">>, <<>>)
        r2 == Replace(r1, <<"_", "(">>, <<"-">>)
        r3 == Replace(r2, <<")">>, <<>>)
        r4 == Replace(r3, <<"'">>, <<>>)
        r5 == Replace(r4, <<"_">>, <<>>)
        r6 == Replace(r5, <<":">>, <<>>)
    IN  SidebarPrefix \o Lower(r6)

InitTitle ==
    /\ pc = "start"
    /\ args \in {[title |-> t] : t \in Titles}
    /\ traffic = <<>>
    /\ json = EmptyObject
    /\ locals = EmptyObject
    /\ wiki = EmptyObject
    /\ log = <<>>
    /\ result = Running

\* A call of title_to_message(args.title).
TitleToMessage ==
    /\ pc = "start"
    /\ pc' = "done"
    /\ result' = Str(title_to_message(args.title))
    /\ UNCHANGED <<args, traffic, json, locals, wiki, log>>

NextTitle == TitleToMessage

SpecTitle == InitTitle /\ [][NextTitle]_vars

-----------------------------------------------------------------------------
(* get_msggroupstats and list_page_translations *)

\* The largest 'total', 'translated' and 'fuzzy' counts a line holds.
MaxTotal == 6

MaxTranslated == 1

MaxFuzzy == 1

\* The cutoff of list_page_translations: a translation with more units
\* neither translated nor fuzzy is ignored.
IgnoreAbove == 4

\* The loop of get_msggroupstats runs while counter is below this.
TryLimit == 4

Languages == {"de", "fr"}

\* One line of messagegroupstats.
StatLines ==
    [language : Languages, total : 0..MaxTotal,
     translated : 0..MaxTranslated, fuzzy : 0..MaxFuzzy]

\* The feeds the wiki may hold: at most as many lines as it has languages,
\* in any order, a language code possibly on two lines.
Feeds == UNION {[1..n -> StatLines] : n \in 0..Cardinality(Languages)}

\* The shapes of a response: without 'query', with a 'query' that lacks
\* 'messagegroupstats', and complete.
StatsShapes == {"noquery", "nostats", "full"}

\* The response of the given shape, with or without the 'continue' key.
StatsResponse(cont, shape, feed) ==
    LET body == CASE shape = "noquery" -> EmptyObject
                  [] shape = "nostats" -> [query |-> EmptyObject]
                  [] shape = "full" -> [query |-> [messagegroupstats |-> feed]]
    IN  IF cont THEN ("continue" :> EmptyObject) @@ body ELSE body

\* The parameters of the request of get_msggroupstats.
StatsRequest(page) ==
    [action |-> "query", meta |-> "messagegroupstats", format |-> "json",
     mgsgroup |-> <<"page-", page>>]

InitStats ==
    /\ pc = "start"
    /\ args = [page |-> "Prayer"]
    /\ traffic = <<>>
    /\ json = EmptyObject
    /\ locals = [counter |-> 0, stats |-> Running, line |-> 0,
                 available_translations |-> <<>>]
    /\ wiki \in Feeds
    /\ log = <<>>
    /\ result = Running

\* get_msggroupstats is entered: counter = 1.
StatsCall ==
    /\ pc = "start"
    /\ pc' = "loop"
    /\ locals' = [locals EXCEPT !.counter = 1]
    /\ UNCHANGED <<args, traffic, json, wiki, log, result>>

\* The loop condition letting one more try through.
StatsLoopRuns_one_more(counter) == counter <= TryLimit

\* The loop condition of get_msggroupstats, counter < 4.
StatsLoopRuns(counter) == counter < TryLimit

\* One pass of the loop: a request, its response, and the break or the
\* increment of counter.
StatsTry ==
    /\ pc = "loop"
    /\ StatsLoopRuns(locals.counter)
    /\ \E cont \in BOOLEAN, shape \in StatsShapes :
          LET response == StatsResponse(cont, shape, wiki)
          IN  /\ traffic' = Append(traffic, Exchange(StatsRequest(args.page), response))
              /\ json' = response
              /\ log' = Append(log, LogRecord("info", "try", locals.counter))
              /\ IF ~Has(response, "continue")
                 THEN pc' = "after" /\ UNCHANGED locals
                 ELSE /\ locals' = [locals EXCEPT !.counter = @ + 1]
                      /\ pc' = IF StatsLoopRuns(locals.counter + 1)
                               THEN "loop" ELSE "after"
    /\ UNCHANGED <<args, wiki, result>>

\* The warning given one try early.
StatsGaveUp_early(doc, counter) == Has(doc, "continue") \/ counter = TryLimit - 1

\* Whether get_msggroupstats warns after its loop.
StatsGaveUp(doc, counter) == Has(doc, "continue") \/ counter = TryLimit

\* What get_msggroupstats returns for the last response read.
StatsValue(doc) ==
    IF ~Has(doc, "query") THEN Str(<<>>)
    ELSE IF ~Has(doc.query, "messagegroupstats") THEN Str(<<>>)
    ELSE Doc(doc)

\* After the loop: the warning, and the return to list_page_translations.
StatsReturn ==
    /\ pc = "after"
    /\ pc' = "returned"
    /\ log' = IF StatsGaveUp(json, locals.counter)
              THEN Append(log, LogRecord("warning", "gave up", locals.counter))
              ELSE log
    /\ locals' = [locals EXCEPT !.stats = StatsValue(json)]
    /\ UNCHANGED <<args, traffic, json, wiki, result>>

\* list_page_translations: json == "" returns []; otherwise the loop over
\* the lines starts.
TranslationsStart ==
    /\ pc = "returned"
    /\ IF locals.stats = Str(<<>>)
       THEN /\ pc' = "done"
            /\ result' = List(<<>>)
            /\ UNCHANGED locals
       ELSE /\ pc' = "lines"
            /\ locals' = [locals EXCEPT !.line = 1]
            /\ UNCHANGED result
    /\ UNCHANGED <<args, traffic, json, wiki, log>>

\* line['translated'] > 0: the translation has been started.
IsStarted(line) == line.translated > 0

\* The cutoff off by one: four open units are ignored too.
IsIgnored_off_by_one(line) ==
    (line.total - line.fuzzy - line.translated) >= IgnoreAbove

\* The cutoff one unit too lenient.
IsIgnored_above_five(line) ==
    (line.total - line.fuzzy - line.translated) > IgnoreAbove + 1

\* The translation looks unfinished and is ignored.
IsIgnored(line) == (line.total - line.fuzzy - line.translated) > IgnoreAbove

\* The warning given for every line whose counts do not add up to total.
IsIncomplete_unequal(line) == (line.translated + line.fuzzy) # line.total

\* The translation is listed, with a warning.
IsIncomplete(line) == (line.translated + line.fuzzy) < line.total

\* One pass of the loop over json['query']['messagegroupstats'].
TranslationsLine ==
    /\ pc = "lines"
    /\ LET feed == locals.stats.doc.query.messagegroupstats
           n == locals.line
       IN  /\ n <= Len(feed)
           /\ LET line == feed[n]
              IN  IF ~IsStarted(line)
                  THEN /\ locals' = [locals EXCEPT !.line = n + 1]
                       /\ UNCHANGED log
                  ELSE IF IsIgnored(line)
                  THEN /\ locals' = [locals EXCEPT !.line = n + 1]
                       /\ log' = Append(log, LogRecord("info", "ignoring", n))
                  ELSE /\ locals' = [locals EXCEPT
                              !.line = n + 1,
                              !.available_translations = Append(@, line.language)]
                       /\ log' = IF IsIncomplete(line)
                                 THEN Append(log, LogRecord("warning", "incomplete", n))
                                 ELSE log
    /\ UNCHANGED <<pc, args, traffic, json, wiki, result>>

\* The loop is through: return available_translations.
TranslationsReturn ==
    /\ pc = "lines"
    /\ locals.line > Len(locals.stats.doc.query.messagegroupstats)
    /\ pc' = "done"
    /\ result' = List(locals.available_translations)
    /\ UNCHANGED <<args, traffic, json, locals, wiki, log>>

NextStats ==
    \/ StatsCall
    \/ StatsTry
    \/ StatsReturn
    \/ TranslationsStart
    \/ TranslationsLine
    \/ TranslationsReturn

SpecStats == InitStats /\ [][NextStats]_vars

\* get_msggroupstats called on its own: it does not read the lines, so the
\* feeds of at most one line stand for all.
InitGetStats ==
    /\ pc = "start"
    /\ args = [page |-> "Prayer"]
    /\ traffic = <<>>
    /\ json = EmptyObject
    /\ locals = [counter |-> 0, stats |-> Running]
    /\ wiki \in {feed \in Feeds : Len(feed) <= 1}
    /\ log = <<>>
    /\ result = Running

NextGetStats ==
    \/ StatsCall
    \/ StatsTry
    \/ StatsReturn

SpecGetStats == InitGetStats /\ [][NextGetStats]_vars

\* The interpreter runs the call to its end once every response arrives.
FairSpecGetStats == SpecGetStats /\ WF_vars(NextGetStats)

-----------------------------------------------------------------------------
(* int() *)

Digits == {"0", "1", "2", "3", "4", "5", "6", "7", "8", "9"}

\* The value of one decimal digit.
DigitValue(c) ==
    CASE c = "0" -> 0 [] c = "1" -> 1 [] c = "2" -> 2 [] c = "3" -> 3
      [] c = "4" -> 4 [] c = "5" -> 5 [] c = "6" -> 6 [] c = "7" -> 7
      [] c = "8" -> 8 [] c = "9" -> 9

\* The str without a leading sign.
Unsigned(s) == IF s # <<>> /\ Head(s) \in {"-", "+"} THEN Tail(s) ELSE s

\* Whether int(s) succeeds, for a str of signs, digits and letters: an
\* optional sign, then one digit or more.
IsInt(s) == Unsigned(s) # <<>> /\ \A k \in 1..Len(Unsigned(s)) : Unsigned(s)[k] \in Digits

\* The number a str of digits denotes.
RECURSIVE DigitsValue(_)
DigitsValue(s) ==
    IF s = <<>> THEN 0
    ELSE 10 * DigitsValue(SubSeq(s, 1, Len(s) - 1)) + DigitValue(s[Len(s)])

\* int(s) where it succeeds.
IntOf(s) ==
    IF Head(s) = "-" THEN 0 - DigitsValue(Unsigned(s)) ELSE DigitsValue(Unsigned(s))

\* All subsets of S of at most n elements.
RECURSIVE SubsetsUpTo(_, _)
SubsetsUpTo(S, n) ==
    IF n = 0 THEN {{}}
    ELSE LET smaller == SubsetsUpTo(S, n - 1)
         IN  smaller \cup {T \cup {x} : T \in smaller, x \in S}

\* All sequences over S of at most n elements.
SeqsUpTo(S, n) == UNION {[1..k -> S] : k \in 0..n}

-----------------------------------------------------------------------------
(* get_file_url *)

\* The most pages a response of the query API holds.
MaxPages == 2

\* The most entries an 'imageinfo' list holds.
MaxInfo == 1

\* The keys of 'pages' the wiki may answer with: the id of a missing page,
\* another negative id, ids of existing pages, -1 written with a leading
\* zero, and a key that is no number.
PageIds == {<<"-", "1">>, <<"-", "2">>, <<"0">>, <<"1", "7">>, <<"-", "0", "1">>, <<"x">>}

Urls == {"https://www.4training.net/mediawiki/images/a/af/Gebet.odt",
         "https://www.4training.net/mediawiki/images/0/0c/Prayer.odt"}

\* One entry of 'imageinfo', with or without its 'url'.
InfoEntries == {EmptyObject} \cup {[url |-> u] : u \in Urls}

\* One page of the response, with or without 'imageinfo'.
FilePages ==
    {EmptyObject} \cup {[imageinfo |-> l] : l \in SeqsUpTo(InfoEntries, MaxInfo)}

\* The responses to the query of get_file_url: without 'query', without
\* 'pages', and with at most MaxPages pages.
FileResponses ==
    {EmptyObject, [query |-> EmptyObject]}
    \cup {[query |-> [pages |-> pages]] :
            pages \in UNION {[ids -> FilePages] : ids \in SubsetsUpTo(PageIds, MaxPages)}}

\* The parameters of the request of get_file_url.
FileRequest(filename) ==
    [action |-> "query", format |-> "json", prop |-> "imageinfo",
     titles |-> <<"File:", filename>>, iiprop |-> "url"]

InitFile ==
    /\ pc = "start"
    /\ args = [filename |-> "Prayer.odt"]
    /\ traffic = <<>>
    /\ json = EmptyObject
    /\ locals = [page_number |-> <<>>]
    /\ wiki = EmptyObject
    /\ log = <<>>
    /\ result = Running

\* The operation ends with the given outcome.
Finish(outcome) == pc' = "done" /\ result' = outcome

\* The request, and the response parsed into url_json.
FileGet ==
    /\ pc = "start"
    /\ \E response \in FileResponses :
          /\ traffic' = Append(traffic, Exchange(FileRequest(args.filename), response))
          /\ json' = response
    /\ log' = log \o <<LogRecord("info", "retrieving", 0), LogRecord("debug", "url_json", 0)>>
    /\ pc' = "pages"
    /\ UNCHANGED <<args, locals, wiki, result>>

\* len(list(url_json["query"]["pages"])) == 1
OnePage(pages) == Cardinality(DOMAIN pages) = 1

\* The check that the answer holds one page, and its key.
FileOnePage ==
    /\ pc = "pages"
    /\ IF ~Has(json, "query") \/ ~Has(json.query, "pages")
       THEN Finish(Raise("KeyError")) /\ UNCHANGED <<locals, log>>
       ELSE IF OnePage(json.query.pages)
       THEN /\ locals' = [locals EXCEPT
                   !.page_number = CHOOSE id \in DOMAIN json.query.pages : TRUE]
            /\ pc' = "exists"
            /\ UNCHANGED <<log, result>>
       ELSE /\ log' = Append(log, LogRecord("warning", "multiple pages", 0))
            /\ Finish(None)
            /\ UNCHANGED locals
    /\ UNCHANGED <<args, traffic, json, wiki>>

\* The page id taken for that of a file that does not exist: any negative.
IsMissing_negative(page_number) == IntOf(page_number) < 0

\* int(page_number) == -1: the file does not exist.
IsMissing(page_number) == IntOf(page_number) = -1

\* The check that the page exists.
FileExists ==
    /\ pc = "exists"
    /\ IF ~IsInt(locals.page_number)
       THEN Finish(Raise("ValueError")) /\ UNCHANGED log
       ELSE IF IsMissing(locals.page_number)
       THEN /\ log' = Append(log, LogRecord("info", "no such file", 0))
            /\ Finish(None)
       ELSE /\ pc' = "url"
            /\ UNCHANGED <<log, result>>
    /\ UNCHANGED <<args, traffic, json, locals, wiki>>

\* return url_json["query"]["pages"][page_number]["imageinfo"][0]["url"]
FileUrl ==
    /\ pc = "url"
    /\ LET page == json.query.pages[locals.page_number]
       IN  IF ~Has(page, "imageinfo") THEN Finish(Raise("KeyError"))
           ELSE IF page.imageinfo = <<>> THEN Finish(Raise("IndexError"))
           ELSE IF ~Has(page.imageinfo[1], "url") THEN Finish(Raise("KeyError"))
           ELSE Finish(Str(page.imageinfo[1].url))
    /\ UNCHANGED <<args, traffic, json, locals, wiki, log>>

NextFile ==
    \/ FileGet
    \/ FileOnePage
    \/ FileExists
    \/ FileUrl

SpecFile == InitFile /\ [][NextFile]_vars

-----------------------------------------------------------------------------
(* get_pdf_name *)

\* The most translation units a message collection holds.
MaxUnits == 2

\* The most revisions a page of the response holds.
MaxRevisions == 1

\* The characters \w matches, among those of the page sources drawn.
WordChars ==
    {"a", "b", "c", "d", "e", "f", "g", "h", "i", "j", "k", "l", "m", "n",
    "o", "p", "q", "r", "s", "t", "u", "v", "w", "x", "y", "z", "A", "B",
    "C", "D", "E", "F", "G", "H", "I", "J", "K", "L", "M", "N", "O", "P",
    "Q", "R", "S", "T", "U", "V", "W", "X", "Y", "Z", "0", "1", "2", "3",
    "4", "5", "6", "7", "8", "9", "_"}

PdfSuffix == <<".", "p", "d", "f">>

\* re.search(r'\.pdf$', s): '$' matches at the end and before a newline
\* that ends the str.
EndsInPdf(s) == EndsWith(s, PdfSuffix) \/ EndsWith(s, PdfSuffix \o <<"\n">>)

PdfDownloadOpening == <<"{", "{", "P", "d", "f", "D", "o", "w", "n", "l", "o", "a", "d">>

\* The first position from `from` on at which s holds c, or 0.
FirstAt(s, c, from) ==
    IF \E k \in from..Len(s) : s[k] = c
    THEN CHOOSE k \in from..Len(s) : s[k] = c /\ \A j \in from..(k - 1) : s[j] # c
    ELSE 0

\* re.search('{{PdfDownload[^}]*}', content): the match as a str, or <<>>
\* for no match.  The opening holds no '}', so the match runs from the
\* first opening that a '}' follows to the first '}' after it.
SearchPdfDownload(content) ==
    LET starts == {k \in 1..Len(content) :
                      /\ StartsWith(Drop(content, k - 1), PdfDownloadOpening)
                      /\ FirstAt(content, "}", k + Len(PdfDownloadOpening)) # 0}
    IN  IF starts = {} THEN <<>>
        ELSE LET k == CHOOSE k \in starts : \A j \in starts : k <= j
             IN  SubSeq(content, k, FirstAt(content, "}", k + Len(PdfDownloadOpening)))

\* How many characters of \w s holds from position k on, without a break.
RECURSIVE WordRun(_, _)
WordRun(s, k) ==
    IF k <= Len(s) /\ s[k] \in WordChars THEN 1 + WordRun(s, k + 1) ELSE 0

\* re.search(r'\w+\.pdf', s): the match as a str, or <<>> for no match.
\* '.' is no character of \w, so \w+ takes the whole run of word
\* characters from the start of the match, and '.pdf' follows it.
SearchPdfFile(s) ==
    LET starts == {k \in 1..Len(s) :
                      /\ WordRun(s, k) > 0
                      /\ StartsWith(Drop(s, k - 1 + WordRun(s, k)), PdfSuffix)}
    IN  IF starts = {} THEN <<>>
        ELSE LET k == CHOOSE k \in starts : \A j \in starts : k <= j
             IN  SubSeq(s, k, k - 1 + WordRun(s, k) + Len(PdfSuffix))

\* The page sources the wiki may hold.
PageSources ==
    {<<"{", "{", "P", "d", "f", "D", "o", "w", "n", "l", "o", "a", "d", "|", "P", "r", "a", "y", "e", "r", ".", "p", "d", "f", "}", "}">>,
     <<"{", "{", "P", "d", "f", "D", "o", "w", "n", "l", "o", "a", "d", "|", "P", "r", "a", "y", "e", "r", ".", "o", "d", "t", "}", "}">>,
     <<"P", "r", "a", "y", "e", "r", ".", "p", "d", "f">>,
     <<"{", "{", "P", "d", "f", "D", "o", "w", "n", "l", "o", "a", "d", "|", "P", "r", "a", "y", "e", "r", ".", "p", "d", "f">>,
     <<"{", "{", "P", "d", "f", "D", "o", "w", "n", "l", "o", "a", "d", "}", "}", "a", ".", "p", "d", "f">>,
     <<"{", "{", "P", "d", "f", "D", "o", "w", "n", "l", "o", "a", "d", "|", ".", "p", "d", "f", "}", "}">>}

\* One revision, with or without its content under '*'.
Revisions == {EmptyObject} \cup {("*" :> content) : content \in PageSources}

\* One page of the response, with or without 'revisions'.
SourcePages ==
    {EmptyObject} \cup {[revisions |-> l] : l \in SeqsUpTo(Revisions, MaxRevisions)}

SourcePageIds == {"-1", "17"}

\* The 'pages' objects of a response, keys in the order of the document:
\* at most MaxPages pages, no key twice.
SourcePageLists ==
    {l \in SeqsUpTo([id : SourcePageIds, page : SourcePages], MaxPages) :
        \A j, k \in 1..Len(l) : l[j].id = l[k].id => j = k}

\* The responses to the query for the page source.
SourceResponses ==
    {EmptyObject, [query |-> EmptyObject]}
    \cup {[query |-> [pages |-> l]] : l \in SourcePageLists}

\* The source texts of the translation units drawn.
UnitDefinitions ==
    {<<"P", "r", "a", "y", "e", "r", ".", "p", "d", "f">>, <<"P", "r", "a", "y", "e", "r", ".", "o", "d", "t">>,
     <<"P", "r", "a", "y", "e", "r", ".", "p", "d", "f", "\n">>, <<"p", "d", "f">>}

UnitTranslations == {"Gebet.pdf", "Priere.pdf"}

\* One translation unit.
Units == [definition : UnitDefinitions, translation : UnitTranslations]

\* The responses to the query for the message collection.
CollectionResponses ==
    {EmptyObject, [query |-> EmptyObject]}
    \cup {[query |-> [messagecollection |-> l]] : l \in SeqsUpTo(Units, MaxUnits)}

\* The parameters of the two requests of get_pdf_name.
SourceRequest(worksheet) ==
    [action |-> "query", prop |-> "revisions", rvlimit |-> 1, rvprop |-> "content",
     format |-> "json", titles |-> worksheet]

CollectionRequest(worksheet, languagecode) ==
    [action |-> "query", format |-> "json", list |-> "messagecollection",
     mcgroup |-> <<"page-", worksheet>>, mclanguage |-> languagecode]

\* The local variable pdf before its first assignment.
Unbound == [kind |-> "unbound"]

InitPdf ==
    /\ pc = "start"
    /\ args \in [worksheet : {"Prayer"}, languagecode : {"en", "de"}]
    /\ traffic = <<>>
    /\ json = EmptyObject
    /\ locals = [translations |-> <<>>, t |-> 0, pdf |-> Unbound]
    /\ wiki = EmptyObject
    /\ log = <<>>
    /\ result = Running

\* languagecode == 'en': the request for the page source.
PdfGetSource ==
    /\ pc = "start"
    /\ args.languagecode = "en"
    /\ \E response \in SourceResponses :
          /\ traffic' = Append(traffic, Exchange(SourceRequest(args.worksheet), response))
          /\ json' = response
    /\ pc' = "source"
    /\ UNCHANGED <<args, locals, wiki, log, result>>

\* What get_pdf_name makes of the response with the page source.
PdfNameInSource(doc) ==
    IF ~Has(doc, "query") THEN None
    ELSE IF ~Has(doc.query, "pages") THEN None
    ELSE IF doc.query.pages = <<>> THEN Raise("StopIteration")
    ELSE LET page == doc.query.pages[1].page
         IN  IF ~Has(page, "revisions") THEN None
             ELSE IF ~(Len(page.revisions) > 0) THEN None
             ELSE IF ~Has(page.revisions[1], "*") THEN None
             ELSE LET pdfdownload == SearchPdfDownload(page.revisions[1]["*"])
                      pdffile == SearchPdfFile(pdfdownload)
                  IN  IF pdfdownload = <<>> THEN None
                      ELSE IF pdffile # <<>> THEN Str(pdffile)
                      ELSE None

\* languagecode == 'en': the scan of the page source.
PdfScanSource ==
    /\ pc = "source"
    /\ Finish(PdfNameInSource(json))
    /\ UNCHANGED <<args, traffic, json, locals, wiki, log>>

\* Any other language: the request for the translation units, and
\* translations = response.json()["query"]["messagecollection"].
PdfGetCollection ==
    /\ pc = "start"
    /\ args.languagecode # "en"
    /\ \E response \in CollectionResponses :
          /\ traffic' = Append(traffic,
                Exchange(CollectionRequest(args.worksheet, args.languagecode), response))
          /\ json' = response
          /\ IF ~Has(response, "query") \/ ~Has(response.query, "messagecollection")
             THEN Finish(Raise("KeyError")) /\ UNCHANGED locals
             ELSE /\ locals' = [locals EXCEPT
                         !.translations = response.query.messagecollection,
                         !.t = 1]
                  /\ pc' = "units"
                  /\ UNCHANGED result
    /\ UNCHANGED <<args, wiki, log>>

\* One pass of the loop over translations.
PdfUnit ==
    /\ pc = "units"
    /\ locals.t <= Len(locals.translations)
    /\ LET t == locals.translations[locals.t]
       IN  locals' = [locals EXCEPT
               !.t = @ + 1,
               !.pdf = IF EndsInPdf(t.definition) THEN Str(t.translation) ELSE @]
    /\ UNCHANGED <<pc, args, traffic, json, wiki, log, result>>

\* return pdf
PdfValue(pdf) == IF pdf = Unbound THEN Raise("UnboundLocalError") ELSE pdf

\* The loop is through.
PdfReturn ==
    /\ pc = "units"
    /\ locals.t > Len(locals.translations)
    /\ Finish(PdfValue(locals.pdf))
    /\ UNCHANGED <<args, traffic, json, locals, wiki, log>>

NextPdf ==
    \/ PdfGetSource
    \/ PdfScanSource
    \/ PdfGetCollection
    \/ PdfUnit
    \/ PdfReturn

SpecPdf == InitPdf /\ [][NextPdf]_vars

-----------------------------------------------------------------------------
(* expand_template and get_cc0_notice *)

\* The most fragments an expanded text is put together from.
MaxFragments == 3

\* The marker of a fuzzy translation.
FuzzyMarker == <<"m", "w", "-", "t", "r", "a", "n", "s", "l", "a", "t", "e",
               "-", "f", "u", "z", "z", "y">>

\* The name of the template, as it shows where it could not be expanded.
TemplateName == <<"T", "e", "m", "p", "l", "a", "t", "e", ":", "C", "C",
                "0", "N", "o", "t", "i", "c", "e">>

\* The str returned for a notice that is not translated.
TodoNotice ==
    <<"T", "O", "D", "O", " ", "t", "r", "a", "n", "s", "l", "a", "t", "e",
    " ", "h", "t", "t", "p", "s", ":", "/", "/", "w", "w", "w", ".", "4",
    "t", "r", "a", "i", "n", "i", "n", "g", ".", "n", "e", "t", "/", "T",
    "e", "m", "p", "l", "a", "t", "e", ":", "C", "C", "0", "N", "o", "t",
    "i", "c", "e">>

\* The pieces expanded texts are put together from: either marker comes
\* about only where its two halves meet.
Fragments ==
    {<<"m", "w", "-", "t", "r", "a", "n", "s", "l", "a", "t", "e", "-">>,
     <<"f", "u", "z", "z", "y">>,
     <<"T", "e", "m", "p", "l", "a", "t", "e", ":", "C", "C", "0">>,
     <<"N", "o", "t", "i", "c", "e">>,
     <<"C", "C", "0", " ", "1", ".", "3">>}

Wikitexts == {Concat(l) : l \in SeqsUpTo(Fragments, MaxFragments)}

\* The responses of the expandtemplates API: without 'expandtemplates',
\* without 'wikitext', and with an expanded text.
ExpandResponses ==
    {EmptyObject, [expandtemplates |-> EmptyObject]}
    \cup {[expandtemplates |-> [wikitext |-> w]] : w \in Wikitexts}

\* The parameters of the request of expand_template.
ExpandRequest(raw_template) ==
    [action |-> "expandtemplates", text |-> raw_template, prop |-> "wikitext",
     format |-> "json"]

\* "{{CC0Notice/" + languagecode + "|" + version + "}}"
NoticeTemplate(version, languagecode) ==
    <<"{{CC0Notice/", languagecode, "|", version, "}}">>

InitNotice ==
    /\ pc = "start"
    /\ args \in [version : {"1.3"}, languagecode : {"de", "fr"}]
    /\ traffic = <<>>
    /\ json = EmptyObject
    /\ locals = [expanded |-> <<>>]
    /\ wiki = EmptyObject
    /\ log = <<>>
    /\ result = Running

\* What expand_template returns for a response.
ExpandedText(doc) ==
    IF Has(doc, "expandtemplates") /\ Has(doc.expandtemplates, "wikitext")
    THEN doc.expandtemplates.wikitext
    ELSE <<>>

\* expanded = expand_template(...): the request, the response, and the
\* warning where the response holds no expanded text.
NoticeExpand ==
    /\ pc = "start"
    /\ \E response \in ExpandResponses :
          /\ traffic' = Append(traffic,
                Exchange(ExpandRequest(NoticeTemplate(args.version, args.languagecode)),
                         response))
          /\ json' = response
          /\ locals' = [locals EXCEPT !.expanded = ExpandedText(response)]
          /\ log' = IF Has(response, "expandtemplates")
                       /\ Has(response.expandtemplates, "wikitext")
                    THEN log
                    ELSE Append(log, LogRecord("warning", "couldn't expand", 0))
    /\ pc' = "fuzzy"
    /\ UNCHANGED <<args, wiki, result>>

\* "mw-translate-fuzzy" in expanded: a warning, and no more.
NoticeFuzzy ==
    /\ pc = "fuzzy"
    /\ log' = IF Contains(locals.expanded, FuzzyMarker)
              THEN Append(log, LogRecord("warning", "not correctly translated", 0))
              ELSE log
    /\ pc' = "template"
    /\ UNCHANGED <<args, traffic, json, locals, wiki, result>>

\* The notice taken for untranslated also where it holds the fuzzy marker.
IsUntranslated_or_fuzzy(expanded) ==
    Contains(expanded, TemplateName) \/ Contains(expanded, FuzzyMarker)

\* "Template:CC0Notice" in expanded: the notice is not translated.
IsUntranslated(expanded) == Contains(expanded, TemplateName)

\* The untranslated notice gives a warning and the TODO; any other
\* expanded text is returned.
NoticeReturn ==
    /\ pc = "template"
    /\ IF IsUntranslated(locals.expanded)
       THEN /\ log' = Append(log, LogRecord("warning", "not translated", 0))
            /\ Finish(Str(TodoNotice))
       ELSE /\ Finish(Str(locals.expanded))
            /\ UNCHANGED log
    /\ UNCHANGED <<args, traffic, json, locals, wiki>>

NextNotice ==
    \/ NoticeExpand
    \/ NoticeFuzzy
    \/ NoticeReturn

SpecNotice == InitNotice /\ [][NextNotice]_vars

-----------------------------------------------------------------------------
(* Properties of get_msggroupstats and list_page_translations *)

\* The feed list_page_translations reads, once get_msggroupstats returned one.
ReturnedFeed == locals.stats.doc.query.messagegroupstats

\* The language codes of the lines of a feed, in its order.
LanguagesOf(feed) == [n \in 1..Len(feed) |-> feed[n].language]

\* The warnings among the log records l.
WarningsIn(l) == SelectSeq(l, LAMBDA r : r.level = "warning")

\* The log records about line n of the feed.
AboutLine(l, n) ==
    SelectSeq(l, LAMBDA r : r.subject = n /\ r.message \in {"ignoring", "incomplete"})

\* C1: for every feed get_msggroupstats returns, list_page_translations
\* returns the language codes of exactly the lines with translated > 0 and
\* total - fuzzy - translated <= 4, once per line and in the order of the
\* feed; no other line contributes to the result.
C1_ListedLanguages ==
    (pc = "done" /\ locals.stats.kind = "doc") =>
        result = List(LanguagesOf(SelectSeq(ReturnedFeed,
                    LAMBDA line : /\ line.translated > 0
                                  /\ line.total - line.fuzzy - line.translated <= 4)))

\* Two lines, both listed, the later language code first in the alphabet:
\* the result keeps the order of the feed.
C1_Witness ==
    /\ pc = "done"
    /\ locals.stats.kind = "doc"
    /\ Len(ReturnedFeed) = 2
    /\ ReturnedFeed[1].language = "fr"
    /\ ReturnedFeed[2].language = "de"
    /\ ReturnedFeed[2].total - ReturnedFeed[2].fuzzy - ReturnedFeed[2].translated = 4
    /\ result = List(<<"fr", "de">>)

\* C2: get_msggroupstats ends after at least 1 and at most 3 requests; every
\* request but the last got a response with 'continue', so none follows a
\* response without it.
C2_BoundedPolling ==
    /\ [](/\ Len(traffic) <= 3
          /\ \A n \in 1..(Len(traffic) - 1) : traffic[n].continue)
    /\ [](pc = "returned" => Len(traffic) >= 1)
    /\ <>(pc = "returned")

\* get_msggroupstats returned after two requests, the second response
\* without 'continue'.
C2_Witness ==
    /\ pc = "returned"
    /\ Len(traffic) = 2
    /\ traffic[1].continue
    /\ ~traffic[2].continue

\* Whether a started line breaks translated + fuzzy <= total.
BreaksInvariant(line) ==
    line.translated > 0 /\ line.translated + line.fuzzy > line.total

\* The loop of list_page_translations takes the step over the line at
\* locals.line.
LineStep == pc = "lines" /\ locals'.line = locals.line + 1

\* C7 as stated: a started line with translated + fuzzy > total is logged
\* and its language code is listed.
C7_ViolationLogged ==
    [][(LineStep /\ BreaksInvariant(ReturnedFeed[locals.line])) =>
          /\ locals'.available_translations =
                Append(locals.available_translations, ReturnedFeed[locals.line].language)
          /\ Len(log') > Len(log)]_vars

\* C7 as the code has it: a started line with translated + fuzzy > total is
\* listed, and nothing is logged for it.
C7_ViolationListedSilently ==
    [][(LineStep /\ BreaksInvariant(ReturnedFeed[locals.line])) =>
          /\ locals'.available_translations =
                Append(locals.available_translations, ReturnedFeed[locals.line].language)
          /\ log' = log]_vars

\* A feed whose only line has more translated units than units in total has
\* been listed.
C7_Witness ==
    /\ pc = "done"
    /\ locals.stats.kind = "doc"
    /\ Len(ReturnedFeed) = 1
    /\ ReturnedFeed[1].translated > ReturnedFeed[1].total
    /\ result = List(<<ReturnedFeed[1].language>>)
    /\ AboutLine(log, 1) = <<>>

\* C8: if all 3 responses held 'continue', get_msggroupstats logs one
\* warning and returns the last response as it would a complete one: the
\* document if it has query.messagegroupstats, else the empty string.  It
\* logs the warning in no other case.
C8_GivesUpWithWarning ==
    pc = "returned" =>
        LET allContinue ==
                Len(traffic) = 3 /\ \A n \in 1..3 : traffic[n].continue
        IN  /\ allContinue =>
                /\ Len(WarningsIn(log)) = 1
                /\ locals.stats =
                      IF Has(json, "query") /\ Has(json.query, "messagegroupstats")
                      THEN Doc(json) ELSE Str(<<>>)
            /\ WarningsIn(log) # <<>> => allContinue

\* Three responses with 'continue', the last with statistics: the document
\* is returned, with one warning.
C8_Witness ==
    /\ pc = "returned"
    /\ Len(traffic) = 3
    /\ traffic[3].continue
    /\ locals.stats.kind = "doc"
    /\ Len(WarningsIn(log)) = 1

\* C10: a line with translated > 0 is ignored (not listed, no warning),
\* incomplete (listed, with a warning) or complete (listed, no warning),
\* and never not listed with a warning; the warning is logged iff the line
\* is listed and translated + fuzzy < total, so a line with the warning has
\* between 1 and 4 units neither translated nor fuzzy.
C10_ThreeClasses ==
    [][(LineStep /\ ReturnedFeed[locals.line].translated > 0) =>
          LET line == ReturnedFeed[locals.line]
              open == line.total - line.fuzzy - line.translated
              listed == locals'.available_translations =
                            Append(locals.available_translations, line.language)
              unlisted == locals'.available_translations =
                              locals.available_translations
              warned == WarningsIn(log') =
                            Append(WarningsIn(log),
                                   LogRecord("warning", "incomplete", locals.line))
              quiet == WarningsIn(log') = WarningsIn(log)
          IN  /\ \/ unlisted /\ quiet
                 \/ listed /\ warned
                 \/ listed /\ quiet
              /\ ~(unlisted /\ warned)
              /\ warned <=> (listed /\ line.translated + line.fuzzy < line.total)
              /\ warned => (1 <= open /\ open <= 4)]_vars

\* One feed with a line of each class: the first ignored, the second
\* incomplete; only the second is listed, with the one warning.
C10_Witness ==
    /\ pc = "done"
    /\ locals.stats.kind = "doc"
    /\ Len(ReturnedFeed) = 2
    /\ AboutLine(log, 1) = <<LogRecord("info", "ignoring", 1)>>
    /\ AboutLine(log, 2) = <<LogRecord("warning", "incomplete", 2)>>
    /\ Len(result.list) = 1

-----------------------------------------------------------------------------
(* Properties of title_to_message *)

\* How often c occurs in s.
CountOf(s, c) == Cardinality({k \in 1..Len(s) : s[k] = c})

\* How often the pair '_(' occurs in s.
CountOfOpening(s) ==
    Cardinality({k \in 1..(Len(s) - 1) : s[k] = "_" /\ s[k + 1] = "("})

\* C9: title_to_message returns 'sidebar-' and then a str without '_',
\* apostrophe, ':', ')' and upper-case letter, whose hyphens are as many as
\* the '_(' in the title with its own hyphens left out: no hyphen of the
\* title survives.
C9_MessageKeyShape ==
    pc = "done" =>
        LET key == result.str
            rest == Drop(key, Len(SidebarPrefix))
            bare == SelectSeq(args.title, LAMBDA c : c # "-")
        IN  /\ StartsWith(key, SidebarPrefix)
            /\ \A k \in 1..Len(rest) : rest[k] \notin {"_", "'", ":", ")", "P"}
            /\ CountOf(rest, "-") = CountOfOpening(bare)

\* A title with a hyphen of its own before a '_(': the key holds the one
\* hyphen that stands for the '_('.
C9_Witness ==
    /\ pc = "done"
    /\ args.title = <<"P", "-", "_", "(">>
    /\ result = Str(SidebarPrefix \o <<"p", "-">>)

-----------------------------------------------------------------------------
(* Properties of get_file_url *)

\* Whether the response holds the whole path query.pages.
HasPages(doc) == Has(doc, "query") /\ Has(doc.query, "pages")

\* Whether a page holds the whole path imageinfo[0].url.
HasUrl(page) ==
    Has(page, "imageinfo") /\ page.imageinfo # <<>> /\ Has(page.imageinfo[1], "url")

\* C3: whatever JSON document the server returns, a key missing at any
\* level makes the operation return its neutral value; no response leads
\* to an unhandled exception.  Stated for get_file_url, whose neutral value
\* is None.
C3_MissingKeyIsNeutral ==
    pc = "done" =>
        /\ result.kind # "raise"
        /\ ~HasPages(json) => result = None
        /\ HasPages(json) =>
              \A id \in DOMAIN json.query.pages :
                  ~HasUrl(json.query.pages[id]) => result = None

\* C4 as stated: None whenever query.pages does not hold exactly one page
\* and whenever the single page id is negative; a URL only for exactly one
\* page with a non-negative id, and then the 'url' of its first imageinfo
\* entry.  A call that an exception leaves returns nothing and is not held
\* against the statement.
C4_NegativeIdNotFound ==
    (pc = "done" /\ HasPages(json)) =>
        LET pages == json.query.pages
            one == Cardinality(DOMAIN pages) = 1
        IN  /\ ~one => result = None
            /\ \A id \in DOMAIN pages :
                  (one /\ IsInt(id) /\ IntOf(id) < 0 /\ result.kind # "raise") =>
                      result = None
            /\ result.kind = "str" =>
                  /\ one
                  /\ \A id \in DOMAIN pages :
                        /\ IsInt(id) /\ IntOf(id) >= 0
                        /\ HasUrl(pages[id])
                        /\ result.str = pages[id].imageinfo[1].url

\* C4 as the code has it: None whenever query.pages does not hold exactly
\* one page and whenever the single page id is -1; a URL only for exactly
\* one page with an id other than -1, and then the 'url' of its first
\* imageinfo entry; a single page with another negative id is looked up
\* like an existing one, and its URL returned if it has one.
C4_MinusOneNotFound ==
    (pc = "done" /\ HasPages(json)) =>
        LET pages == json.query.pages
            one == Cardinality(DOMAIN pages) = 1
        IN  /\ ~one => result = None
            /\ \A id \in DOMAIN pages :
                  (one /\ IsInt(id) /\ IntOf(id) = -1) => result = None
            /\ result.kind = "str" =>
                  /\ one
                  /\ \A id \in DOMAIN pages :
                        /\ IsInt(id) /\ IntOf(id) # -1
                        /\ HasUrl(pages[id])
                        /\ result.str = pages[id].imageinfo[1].url
            /\ \A id \in DOMAIN pages :
                  (one /\ IsInt(id) /\ IntOf(id) # -1 /\ HasUrl(pages[id])) =>
                      result = Str(pages[id].imageinfo[1].url)

\* The single page has the id -2 and a URL, which is returned.
C4_Witness ==
    /\ pc = "done"
    /\ HasPages(json)
    /\ DOMAIN json.query.pages = {<<"-", "2">>}
    /\ result.kind = "str"
    /\ result.str = json.query.pages[<<"-", "2">>].imageinfo[1].url

-----------------------------------------------------------------------------
(* Properties of get_pdf_name *)

\* C6: for a language other than 'en', get_pdf_name returns the
\* 'translation' of a unit whose 'definition' ends in '.pdf' if there is
\* one, and None if there is none, the empty collection included.
C6_PdfNameOrNone ==
    (pc = "done" /\ args.languagecode # "en"
        /\ Has(json, "query") /\ Has(json.query, "messagecollection")) =>
        LET units == json.query.messagecollection
            pdfs == {k \in 1..Len(units) : EndsWith(units[k].definition, PdfSuffix)}
        IN  IF pdfs = {}
            THEN result = None
            ELSE \E k \in pdfs : result = Str(units[k].translation)

-----------------------------------------------------------------------------
(* Properties of get_cc0_notice *)

\* C5 as stated: the TODO is returned whenever the expanded text holds the
\* fuzzy marker or the template name, the expanded text only when it holds
\* neither.
C5_TodoForFuzzyOrUntranslated ==
    pc = "done" =>
        IF Contains(locals.expanded, FuzzyMarker) \/ Contains(locals.expanded, TemplateName)
        THEN result = Str(TodoNotice)
        ELSE result = Str(locals.expanded)

\* C5 as the code has it: the TODO is returned whenever the expanded text
\* holds the template name, and the expanded text whenever it does not,
\* the fuzzy marker in it or not; the fuzzy marker gives a warning of its
\* own and nothing else.
C5_TodoForUntranslated ==
    pc = "done" =>
        /\ IF Contains(locals.expanded, TemplateName)
           THEN result = Str(TodoNotice)
           ELSE result = Str(locals.expanded)
        /\ Contains(locals.expanded, FuzzyMarker) <=>
              \E k \in 1..Len(log) : log[k].message = "not correctly translated"

\* An expanded text with the fuzzy marker and without the template name is
\* returned as it is, after the warning.
C5_Witness ==
    /\ pc = "done"
    /\ Contains(locals.expanded, FuzzyMarker)
    /\ ~Contains(locals.expanded, TemplateName)
    /\ result = Str(locals.expanded)
    /\ Len(WarningsIn(log)) = 1

=============================================================================
